---- MODULE Spec2Model ----
(***************************************************************************)
(* Session lifecycle of the carelum backend (backend/app/routes/sessions.py)*)
(* as a state machine over the rows of the "sessions" table.               *)
(*                                                                         *)
(* Every handler receives current_user, the CurrentUser that verify_token  *)
(* resolved for the request.  The role column is rewritten by the admin    *)
(* update_user endpoint at any time and verify_token can fall back to the  *)
(* token's role hint, so a handler is called with any user id carrying any *)
(* role: current_user is an input of each action.                          *)
(*                                                                         *)
(* Python values: None is the string "None"; every column modelled here is *)
(* a string in the code (ids, statuses, ISO timestamps).  The row store is *)
(* the generic select/insert/update interface and is taken to answer.      *)
(* Columns that a PUT only copies from the request (location, notes,       *)
(* hourly_rate, total_amount) take no part in any decision and are left    *)
(* out of the row.                                                         *)
(***************************************************************************)
EXTENDS Integers, Sequences, FiniteSets, TLC

\* ------------------------------------------------------------------ bounds
MaxTime == 1
MaxInFlight == 2
MaxRows == 2
MaxStart == 1

\* ------------------------------------------------------------------ values
None == "None"

Users == {"pa", "sa", "sb"}
Roles == {"parent", "sitter", "admin"}
CurrentUsers == [id : Users, role : Roles]

Statuses == {"requested", "accepted", "active", "completed", "cancelled"}
Scopes == {"invite", "nearby", "city", "nationwide"}
\* UpdateSessionRequest.status is a free string: the five statuses, the
\* legacy alias, or absent.
StatusInputs == Statuses \cup {"pending", None}
\* Optional[str] request fields: absent, empty, or a text.
ReasonInputs == {None, "", "r1"}
EndTimeInputs == {None, "", "e1"}
\* The ids of the rows the model follows.  A handler selects and updates the
\* one row whose id it is given, so one row is followed through its life.
SessionIds == {"s1"}

\* Python truthiness of an Optional[str].
Truthy(x) == x # None /\ x # ""

\* datetime.utcnow().isoformat() of clock value t.
IsoFormat(t) == ToString(t)

\* One more reading of the clock after a reading of t: time does not go back,
\* and the model's clock stops at MaxTime.
ClockReads(t) == {u \in t..MaxTime : u <= t + 1}

\* users is the table of profiles (public.users): user id -> row with its role.
VARIABLES sessions, now, last, pending, users

vars == <<sessions, now, last, pending, users>>

\* No call is being answered and no write is in flight.
Idle == last.op = "none" /\ pending = {}

\* ------------------------------------------------------------ access policy
\* Mutant of verify_session_access: the assigned sitter is forgotten.
verify_session_access_ParentOnly(session_data, user) ==
    IF user.role = "admin"
    THEN TRUE
    ELSE session_data.parent_id = user.id

verify_session_access(session_data, user) ==
    IF user.role = "admin"
    THEN TRUE
    ELSE \/ session_data.parent_id = user.id
         \/ session_data.sitter_id = user.id

\* ------------------------------------------------------------ state machine
\* Mutant of valid_transitions: an active session may be accepted again.
valid_transitions_Reaccept(current_status) ==
    CASE current_status = "requested" -> {"accepted", "cancelled"}
      [] current_status = "accepted"  -> {"active", "cancelled"}
      [] current_status = "active"    -> {"completed", "cancelled", "accepted"}
      [] current_status = "completed" -> {}
      [] current_status = "cancelled" -> {}
      [] current_status = "pending"   -> {"accepted", "cancelled"}
      [] OTHER                        -> {}

valid_transitions(current_status) ==
    CASE current_status = "requested" -> {"accepted", "cancelled"}
      [] current_status = "accepted"  -> {"active", "cancelled"}
      [] current_status = "active"    -> {"completed", "cancelled"}
      [] current_status = "completed" -> {}
      [] current_status = "cancelled" -> {}
      [] current_status = "pending"   -> {"accepted", "cancelled"}
      [] OTHER                        -> {}

\* Mutant of validate_status_transition: the invite rule is missing.
validate_status_transition_NoInviteRule(current_status, new_status, user_role, session_data) ==
    IF current_status \in {"completed", "cancelled"} THEN FALSE
    ELSE IF new_status \notin valid_transitions(current_status) THEN FALSE
    ELSE IF new_status = "accepted" /\ user_role # "sitter" THEN FALSE
    ELSE IF new_status = "active" /\ user_role # "sitter" THEN FALSE
    ELSE IF new_status = "active" /\ current_status # "accepted" THEN FALSE
    ELSE IF new_status = "completed" /\ user_role # "sitter" THEN FALSE
    ELSE IF new_status = "completed" /\ current_status # "active" THEN FALSE
    ELSE TRUE

\* is_valid of validate_status_transition; session_data is the row together
\* with current_user_id.
validate_status_transition(current_status, new_status, user_role, session_data) ==
    IF current_status \in {"completed", "cancelled"} THEN FALSE
    ELSE IF new_status \notin valid_transitions(current_status) THEN FALSE
    ELSE IF new_status = "accepted" /\ user_role # "sitter" THEN FALSE
    ELSE IF /\ new_status = "accepted"
            /\ session_data.search_scope = "invite"
            /\ session_data.sitter_id # session_data.current_user_id THEN FALSE
    ELSE IF new_status = "active" /\ user_role # "sitter" THEN FALSE
    ELSE IF new_status = "active" /\ current_status # "accepted" THEN FALSE
    ELSE IF new_status = "completed" /\ user_role # "sitter" THEN FALSE
    ELSE IF new_status = "completed" /\ current_status # "active" THEN FALSE
    ELSE TRUE

\* ------------------------------------------------------------------- rows
EmptyPatch == [k \in {} |-> None]
NoRow == EmptyPatch

\* last is the call that was just answered: the request, the row the handler
\* selected (before), the update_data it wrote (patch), the response code and
\* the clock when the call began.  NoCall: no answer is outstanding.
NoCall ==
    [ op |-> "none", user |-> [id |-> None, role |-> None], sid |-> None,
      req |-> EmptyPatch, code |-> "OK", before |-> NoRow, patch |-> EmptyPatch,
      t0 |-> 0 ]

\* update(update_data).eq("id", ...): the columns named in update_data are
\* overwritten, the others keep their value.
ApplyPatch(row, update_data) ==
    [k \in DOMAIN row |-> IF k \in DOMAIN update_data THEN update_data[k] ELSE row[k]]

\* Mutant of InsertData: sitterId is stored whatever the scope.
InsertData_KeepsSitter(session_data, search_scope) ==
    [ parent_id           |-> session_data.parentId,
      sitter_id           |-> session_data.sitterId,
      status              |-> "requested",
      end_time            |-> IF Truthy(session_data.endTime) THEN session_data.endTime ELSE None,
      search_scope        |-> search_scope,
      cancelled_at        |-> None,
      cancelled_by        |-> None,
      cancellation_reason |-> None,
      completed_at        |-> None,
      updated_at          |-> None ]

\* insert_data of create_session (the columns the lifecycle reads or writes;
\* the stamp columns are not part of the insert and start empty).
InsertData(session_data, search_scope) ==
    [ parent_id           |-> session_data.parentId,
      sitter_id           |-> IF search_scope = "invite" THEN session_data.sitterId ELSE None,
      status              |-> "requested",
      end_time            |-> IF Truthy(session_data.endTime) THEN session_data.endTime ELSE None,
      search_scope        |-> search_scope,
      cancelled_at        |-> None,
      cancelled_by        |-> None,
      cancellation_reason |-> None,
      completed_at        |-> None,
      updated_at          |-> None ]

\* ---------------------------------------------------------- create_session
\* CreateSessionRequest: maxDistanceKm 0 stands for an absent (or zero) value,
\* which the handler's truth test treats alike.
KmInputs == {0, 5, 7}
ScopeInputs == Scopes \cup {None, "global"}
CreateRequests ==
    [ parentId : {"pa"}, sitterId : {None, "sa"}, searchScope : ScopeInputs,
      maxDistanceKm : {5}, endTime : {None} ]
    \cup [ parentId : {"pa"}, sitterId : {None}, searchScope : {"nearby"},
           maxDistanceKm : KmInputs, endTime : {None} ]

\* search_scope = session_data.searchScope or 'invite'
CreateScope(session_data) ==
    IF Truthy(session_data.searchScope) THEN session_data.searchScope ELSE "invite"

\* Mutant of CreateDecision: parentId is not compared with the caller's id.
CreateDecision_AnyParent(session_data, current_user) ==
    LET search_scope == CreateScope(session_data) IN
    IF current_user.role # "parent" THEN "FORBIDDEN"
    ELSE IF search_scope \notin Scopes THEN "INVALID_SCOPE"
    ELSE IF search_scope = "invite" /\ ~Truthy(session_data.sitterId) THEN "INVALID_REQUEST"
    ELSE IF search_scope = "nearby" /\ session_data.maxDistanceKm = 0 THEN "INVALID_REQUEST"
    ELSE IF search_scope = "nearby" /\ session_data.maxDistanceKm \notin {5, 10, 25}
         THEN "INVALID_REQUEST"
    ELSE "OK"

\* The response code of create_session before the insert: "OK" when every
\* check passes.
CreateDecision(session_data, current_user) ==
    LET search_scope == CreateScope(session_data) IN
    IF current_user.role # "parent" THEN "FORBIDDEN"
    ELSE IF session_data.parentId # current_user.id THEN "FORBIDDEN"
    ELSE IF search_scope \notin Scopes THEN "INVALID_SCOPE"
    ELSE IF search_scope = "invite" /\ ~Truthy(session_data.sitterId) THEN "INVALID_REQUEST"
    ELSE IF search_scope = "nearby" /\ session_data.maxDistanceKm = 0 THEN "INVALID_REQUEST"
    ELSE IF search_scope = "nearby" /\ session_data.maxDistanceKm \notin {5, 10, 25}
         THEN "INVALID_REQUEST"
    ELSE "OK"

\* The id the store gives the inserted row: one that no row has yet.
NewIds == SessionIds \ DOMAIN sessions

CreateSession(current_user, session_data) ==
    LET code == CreateDecision(session_data, current_user) IN
    /\ Idle
    /\ IF code = "OK"
       THEN \E id \in NewIds :
              /\ sessions' = sessions @@
                     (id :> InsertData(session_data, CreateScope(session_data)))
              /\ last' = [ op |-> "create", user |-> current_user, sid |-> id,
                           req |-> session_data, code |-> "OK", before |-> NoRow,
                           patch |-> EmptyPatch, t0 |-> now ]
       ELSE /\ sessions' = sessions
            /\ last' = [ op |-> "create", user |-> current_user, sid |-> None,
                         req |-> session_data, code |-> code, before |-> NoRow,
                         patch |-> EmptyPatch, t0 |-> now ]
    /\ UNCHANGED <<now, pending, users>>

\* ---------------------------------------------------------- update_session
\* UpdateSessionRequest (status, endTime, cancellationReason): a status alone,
\* a cancellation with a reason, a completion with an endTime, and endTime alone.
UpdateRequests ==
    [ status : StatusInputs, endTime : {None}, cancellationReason : {None} ]
    \cup [ status : {"cancelled"}, endTime : {None}, cancellationReason : ReasonInputs ]
    \cup [ status : {"completed", None}, endTime : EndTimeInputs, cancellationReason : {None} ]

\* The response code of update_session up to the write: the row lookup, the
\* access check and the state-machine check.
UpdateDecision(session_data, current_user, updates) ==
    IF ~verify_session_access(session_data, current_user) THEN "FORBIDDEN"
    ELSE IF /\ updates.status # None
            /\ updates.status # session_data.status
            /\ ~validate_status_transition(
                   session_data.status, updates.status, current_user.role,
                   session_data @@ [current_user_id |-> current_user.id])
         THEN "INVALID_STATUS_TRANSITION"
    ELSE "OK"

\* The clock readings of update_session, in the order of the code: the stamp
\* of the status (cancelled_at, completed_at), the end_time of a completion
\* without endTime, and updated_at.  A reading that the request does not
\* take repeats the one before it.
UpdateClock(updates, t) ==
    { r \in [stamp : ClockReads(t), end : t..MaxTime, upd : t..MaxTime] :
        /\ (updates.status \notin {"cancelled", "completed"} => r.stamp = t)
        /\ r.end \in IF updates.status = "completed" /\ ~Truthy(updates.endTime)
                     THEN ClockReads(r.stamp) ELSE {r.stamp}
        /\ r.upd \in ClockReads(r.end) }

\* Mutant of UpdateData: the acting sitter is never assigned.
UpdateData_NoAssign(session_data, current_user, updates, r) ==
    LET assign_sitter ==
            EmptyPatch
        cancelled ==
            IF updates.status = "cancelled"
            THEN [ cancelled_at |-> IsoFormat(r.stamp), cancelled_by |-> current_user.role ]
                 @@ (IF Truthy(updates.cancellationReason)
                     THEN [cancellation_reason |-> updates.cancellationReason]
                     ELSE EmptyPatch)
            ELSE EmptyPatch
        completed ==
            IF updates.status = "completed"
            THEN [completed_at |-> IsoFormat(r.stamp)]
                 @@ (IF ~Truthy(updates.endTime)
                     THEN [end_time |-> IsoFormat(r.end)] ELSE EmptyPatch)
            ELSE EmptyPatch
        status == IF updates.status # None
                  THEN [status |-> updates.status] @@ assign_sitter @@ cancelled @@ completed
                  ELSE EmptyPatch
        end_time == IF updates.endTime # None
                    THEN [end_time |-> updates.endTime] ELSE EmptyPatch
    IN  [updated_at |-> IsoFormat(r.upd)] @@ end_time @@ status

\* Mutant of UpdateData: the acting sitter is assigned over a sitter_id that is
\* already set.
UpdateData_Reassign(session_data, current_user, updates, r) ==
    LET assign_sitter ==
            IF /\ updates.status \in {"accepted", "active"}
               /\ current_user.role = "sitter"
            THEN [sitter_id |-> current_user.id] ELSE EmptyPatch
        cancelled ==
            IF updates.status = "cancelled"
            THEN [ cancelled_at |-> IsoFormat(r.stamp), cancelled_by |-> current_user.role ]
                 @@ (IF Truthy(updates.cancellationReason)
                     THEN [cancellation_reason |-> updates.cancellationReason]
                     ELSE EmptyPatch)
            ELSE EmptyPatch
        completed ==
            IF updates.status = "completed"
            THEN [completed_at |-> IsoFormat(r.stamp)]
                 @@ (IF ~Truthy(updates.endTime)
                     THEN [end_time |-> IsoFormat(r.end)] ELSE EmptyPatch)
            ELSE EmptyPatch
        status == IF updates.status # None
                  THEN [status |-> updates.status] @@ assign_sitter @@ cancelled @@ completed
                  ELSE EmptyPatch
        end_time == IF updates.endTime # None
                    THEN [end_time |-> updates.endTime] ELSE EmptyPatch
    IN  [updated_at |-> IsoFormat(r.upd)] @@ end_time @@ status

\* update_data of update_session; a later assignment to a key replaces an
\* earlier one.
UpdateData(session_data, current_user, updates, r) ==
    LET assign_sitter ==
            IF /\ updates.status \in {"accepted", "active"}
               /\ current_user.role = "sitter"
               /\ ~Truthy(session_data.sitter_id)
            THEN [sitter_id |-> current_user.id] ELSE EmptyPatch
        cancelled ==
            IF updates.status = "cancelled"
            THEN [ cancelled_at |-> IsoFormat(r.stamp), cancelled_by |-> current_user.role ]
                 @@ (IF Truthy(updates.cancellationReason)
                     THEN [cancellation_reason |-> updates.cancellationReason]
                     ELSE EmptyPatch)
            ELSE EmptyPatch
        completed ==
            IF updates.status = "completed"
            THEN [completed_at |-> IsoFormat(r.stamp)]
                 @@ (IF ~Truthy(updates.endTime)
                     THEN [end_time |-> IsoFormat(r.end)] ELSE EmptyPatch)
            ELSE EmptyPatch
        status == IF updates.status # None
                  THEN [status |-> updates.status] @@ assign_sitter @@ cancelled @@ completed
                  ELSE EmptyPatch
        end_time == IF updates.endTime # None
                    THEN [end_time |-> updates.endTime] ELSE EmptyPatch
    IN  [updated_at |-> IsoFormat(r.upd)] @@ end_time @@ status

UpdateSession(current_user, session_id, updates) ==
    /\ Idle
    /\ IF session_id \notin DOMAIN sessions
       THEN /\ last' = [ op |-> "update", user |-> current_user, sid |-> session_id,
                         req |-> updates, code |-> "SESSION_NOT_FOUND",
                         before |-> NoRow, patch |-> EmptyPatch, t0 |-> now ]
            /\ UNCHANGED <<sessions, now>>
       ELSE LET session_data == sessions[session_id]
                code == UpdateDecision(session_data, current_user, updates)
            IN  IF code # "OK"
                THEN /\ last' = [ op |-> "update", user |-> current_user,
                                  sid |-> session_id, req |-> updates, code |-> code,
                                  before |-> session_data, patch |-> EmptyPatch, t0 |-> now ]
                     /\ UNCHANGED <<sessions, now>>
                ELSE \E r \in UpdateClock(updates, now) :
                       LET update_data == UpdateData(session_data, current_user, updates, r)
                       IN  /\ sessions' = [sessions EXCEPT ![session_id] =
                                              ApplyPatch(session_data, update_data)]
                           /\ now' = r.upd
                           /\ last' = [ op |-> "update", user |-> current_user,
                                        sid |-> session_id, req |-> updates,
                                        code |-> "OK", before |-> session_data,
                                        patch |-> update_data, t0 |-> now ]
    /\ UNCHANGED <<pending, users>>

\* ---------------------------------------------------------- cancel_session
\* Mutant of CancelDecision: the check of the current status is missing.
CancelDecision_NoTerminalCheck(session_data, current_user) ==
    IF ~verify_session_access(session_data, current_user) THEN "FORBIDDEN"
    ELSE "OK"

CancelDecision(session_data, current_user) ==
    IF ~verify_session_access(session_data, current_user) THEN "FORBIDDEN"
    ELSE IF session_data.status \in {"completed", "cancelled"} THEN "INVALID_STATUS"
    ELSE "OK"

\* The two clock readings of cancel_session: cancelled_at, then updated_at.
CancelClock(t) ==
    { r \in [stamp : ClockReads(t), upd : t..MaxTime] : r.upd \in ClockReads(r.stamp) }

\* Mutant of CancelData: the reason is written without the test for one.
CancelData_AlwaysReason(current_user, reason, r) ==
    [ status |-> "cancelled", cancelled_at |-> IsoFormat(r.stamp),
      cancelled_by |-> current_user.role, updated_at |-> IsoFormat(r.upd),
      cancellation_reason |-> reason ]

CancelData(current_user, reason, r) ==
    [ status |-> "cancelled", cancelled_at |-> IsoFormat(r.stamp),
      cancelled_by |-> current_user.role, updated_at |-> IsoFormat(r.upd) ]
    @@ (IF Truthy(reason) THEN [cancellation_reason |-> reason] ELSE EmptyPatch)

CancelSession(current_user, session_id, reason) ==
    /\ Idle
    /\ IF session_id \notin DOMAIN sessions
       THEN /\ last' = [ op |-> "cancel", user |-> current_user, sid |-> session_id,
                         req |-> [reason |-> reason], code |-> "SESSION_NOT_FOUND",
                         before |-> NoRow, patch |-> EmptyPatch, t0 |-> now ]
            /\ UNCHANGED <<sessions, now>>
       ELSE LET session_data == sessions[session_id]
                code == CancelDecision(session_data, current_user)
            IN  IF code # "OK"
                THEN /\ last' = [ op |-> "cancel", user |-> current_user,
                                  sid |-> session_id, req |-> [reason |-> reason],
                                  code |-> code, before |-> session_data,
                                  patch |-> EmptyPatch, t0 |-> now ]
                     /\ UNCHANGED <<sessions, now>>
                ELSE \E r \in CancelClock(now) :
                       LET update_data == CancelData(current_user, reason, r)
                       IN  /\ sessions' = [sessions EXCEPT ![session_id] =
                                              ApplyPatch(session_data, update_data)]
                           /\ now' = r.upd
                           /\ last' = [ op |-> "cancel", user |-> current_user,
                                        sid |-> session_id, req |-> [reason |-> reason],
                                        code |-> "OK", before |-> session_data,
                                        patch |-> update_data, t0 |-> now ]
    /\ UNCHANGED <<pending, users>>

\* ------------------------------------------------------------ specification
\* The caller takes the answer; the next call of the sequential specification
\* starts after that.
Acknowledge ==
    /\ last.op # "none"
    /\ last' = NoCall
    /\ UNCHANGED <<sessions, now, pending, users>>

Init ==
    /\ sessions = [i \in {} |-> NoRow]
    /\ now = 0
    /\ last = NoCall
    /\ pending = {}
    /\ users = [i \in {} |-> NoRow]

Next ==
    \/ \E u \in CurrentUsers, q \in CreateRequests : CreateSession(u, q)
    \/ \E u \in CurrentUsers, i \in SessionIds, q \in UpdateRequests : UpdateSession(u, i, q)
    \/ \E u \in CurrentUsers, i \in SessionIds, q \in ReasonInputs : CancelSession(u, i, q)
    \/ Acknowledge

Spec == Init /\ [][Next]_vars

\* ------------------------------------------------- interleaved transitions
\* Each request runs on its own task: it selects the row, checks access and
\* the transition against the row it read and builds update_data
\* (BeginUpdate, BeginCancel); its update(update_data).eq("id", session_id)
\* reaches the store later (CommitWrite), after other requests may have
\* written.  pending holds the writes on their way.
ConcUsers == { [id |-> "pa", role |-> "parent"], [id |-> "sa", role |-> "sitter"] }
ConcRequests ==
    [ status : {"accepted", "active", "completed", "cancelled"}, endTime : {None},
      cancellationReason : {None} ]

BeginUpdate(current_user, session_id, updates) ==
    /\ last.op = "none"
    /\ Cardinality(pending) < MaxInFlight
    /\ session_id \in DOMAIN sessions
    /\ LET session_data == sessions[session_id]
           code == UpdateDecision(session_data, current_user, updates)
       IN  IF code # "OK"
           THEN /\ last' = [ op |-> "update", user |-> current_user, sid |-> session_id,
                             req |-> updates, code |-> code, before |-> session_data,
                             patch |-> EmptyPatch, t0 |-> now ]
                /\ UNCHANGED <<now, pending>>
           ELSE \E r \in UpdateClock(updates, now) :
                  /\ pending' = pending \cup
                         {[ op |-> "update", user |-> current_user, sid |-> session_id,
                            req |-> updates, code |-> "OK", before |-> session_data,
                            patch |-> UpdateData(session_data, current_user, updates, r),
                            t0 |-> now ]}
                  /\ now' = r.upd
                  /\ UNCHANGED last
    /\ UNCHANGED <<sessions, users>>

BeginCancel(current_user, session_id, reason) ==
    /\ last.op = "none"
    /\ Cardinality(pending) < MaxInFlight
    /\ session_id \in DOMAIN sessions
    /\ LET session_data == sessions[session_id]
           code == CancelDecision(session_data, current_user)
       IN  IF code # "OK"
           THEN /\ last' = [ op |-> "cancel", user |-> current_user, sid |-> session_id,
                             req |-> [reason |-> reason], code |-> code,
                             before |-> session_data, patch |-> EmptyPatch, t0 |-> now ]
                /\ UNCHANGED <<now, pending>>
           ELSE \E r \in CancelClock(now) :
                  /\ pending' = pending \cup
                         {[ op |-> "cancel", user |-> current_user, sid |-> session_id,
                            req |-> [reason |-> reason], code |-> "OK",
                            before |-> session_data,
                            patch |-> CancelData(current_user, reason, r), t0 |-> now ]}
                  /\ now' = r.upd
                  /\ UNCHANGED last
    /\ UNCHANGED <<sessions, users>>

\* The store applies a write that is on its way: update ... where id =
\* session_id, whatever the row holds by now.
CommitWrite(w) ==
    /\ last.op = "none"
    /\ w \in pending
    /\ sessions' = [sessions EXCEPT ![w.sid] = ApplyPatch(sessions[w.sid], w.patch)]
    /\ pending' = pending \ {w}
    /\ last' = w
    /\ UNCHANGED <<now, users>>

NextConc ==
    \/ \E u \in ConcUsers, q \in CreateRequests : CreateSession(u, q)
    \/ \E u \in ConcUsers, i \in SessionIds, q \in ConcRequests : BeginUpdate(u, i, q)
    \/ \E u \in ConcUsers, i \in SessionIds : BeginCancel(u, i, None)
    \/ \E w \in pending : CommitWrite(w)
    \/ Acknowledge

SpecConc == Init /\ [][NextConc]_vars

\* ------------------------------------------------ discover_available_sessions
\* Discovery reads the whole table.  In SpecDiscover the variable sessions is
\* the table as a sequence of rows: the index of a row is its id, and rows of
\* equal start_time leave the store in the order of the sequence.  The rows
\* carry the columns discovery reads: start_time is a number, max_distance_km
\* 0 is null, expires_at and location are the records below.
QueryLimit == 200
ResultLimit == 100

\* expires_at: null; an ISO timestamp with its UTC offset, which the handler
\* parses and compares with now; or an ISO timestamp of time t on which the
\* try block raises (no offset: comparing it with the aware now raises
\* TypeError) and which the handler therefore lets through.
NoExpiry == [kind |-> "none", t |-> 0]
ExpiresValues ==
    { NoExpiry, [kind |-> "aware", t |-> 0], [kind |-> "naive", t |-> 0] }

\* Lines 838-845: the row is skipped when expires_at parses to a time before
\* now; a null value and a value on which the try block raises are kept.
Expired(expires_at, t) ==
    IF expires_at.kind = "none" THEN FALSE
    ELSE IF expires_at.kind = "aware" THEN expires_at.t < t
    ELSE FALSE

\* location: null, a free text (json.loads raises), the JSON text of an
\* object, or an object; an object may have a city.
NoLocation == [kind |-> "none", city |-> None]
Locations ==
    { NoLocation, [kind |-> "text", city |-> None], [kind |-> "json", city |-> None],
      [kind |-> "json", city |-> "Colombo"], [kind |-> "dict", city |-> "Kandy"] }

\* session_city of lines 858-869.
SessionCity(location) ==
    IF location.kind \in {"json", "dict"} THEN location.city ELSE None

\* str.lower() on the city names of the model.
Lower(s) ==
    CASE s = "Colombo" -> "colombo"
      [] s = "Kandy"   -> "kandy"
      [] OTHER         -> s

\* A requested row without expiry, location or radius.
PlainRow(search_scope, sitter_id, start_time) ==
    [ status |-> "requested", search_scope |-> search_scope, sitter_id |-> sitter_id,
      start_time |-> start_time, expires_at |-> NoExpiry,
      max_distance_km |-> IF search_scope = "nearby" THEN 5 ELSE 0,
      location |-> NoLocation ]

\* The rows of the tables: every scope, with an invitation and an open
\* request at every start_time; a row that is no longer requested; rows of
\* every scope with an expires_at; nearby rows of the other radii; city rows
\* with a location.
RowKinds ==
    { PlainRow("invite", "sa", t) : t \in 0..MaxStart }
    \cup { PlainRow("nationwide", None, t) : t \in 0..MaxStart }
    \cup { PlainRow("invite", "sb", 0), PlainRow("nearby", None, 0),
           PlainRow("city", None, 0) }
    \cup { [PlainRow("nationwide", None, 0) EXCEPT !.status = "accepted"] }
    \cup { [PlainRow("nationwide", None, 0) EXCEPT !.expires_at = e] :
             e \in ExpiresValues \ {NoExpiry} }
    \cup { [PlainRow("invite", "sa", 0) EXCEPT !.expires_at = e] :
             e \in ExpiresValues \ {NoExpiry} }
    \cup { [PlainRow(c, None, 0) EXCEPT !.expires_at = [kind |-> "aware", t |-> 0]] :
             c \in {"nearby", "city"} }
    \cup { [PlainRow("nearby", None, 0) EXCEPT !.max_distance_km = k] : k \in {10, 25} }
    \cup { [PlainRow("city", None, 0) EXCEPT !.location = l] :
             l \in Locations \ {NoLocation} }

\* Many open requests with the earliest start_time.
Crowd(k) == [i \in 1..k |-> PlainRow("nationwide", None, 0)]

\* The tables: up to MaxRows rows, and a crowd that fills the query limit, or
\* all of it but one place, before one more row.
Tables ==
    UNION { [1..n -> RowKinds] : n \in 0..MaxRows }
    \cup { Crowd(k) \o <<r>> : k \in {QueryLimit - 1, QueryLimit}, r \in RowKinds }

\* Query parameters: max_distance 0 is absent (or zero: the handler's truth
\* test treats them alike).  profile_city is what the lookup of the caller's
\* profile gives: its city, or None when there is no row, no city, or the
\* lookup fails.
PlainRequests ==
    [ scope : ScopeInputs, max_distance : {0}, sitter_city : {None}, profile_city : {None} ]
DiscoverRequests ==
    PlainRequests
    \cup [ scope : {"nearby"}, max_distance : {10}, sitter_city : {None},
           profile_city : {None} ]
    \cup [ scope : {None, "city"}, max_distance : {0}, sitter_city : {"colombo"},
           profile_city : {None} ]
    \cup [ scope : {None, "city"}, max_distance : {0}, sitter_city : {None},
           profile_city : {"Colombo"} ]

\* sitter_city after lines 793-802: the profile is read only when sitter_city
\* is given or scope is city, and fills in a missing sitter_city.
SitterCity(q) ==
    IF Truthy(q.sitter_city) THEN q.sitter_city
    ELSE IF q.scope = "city" THEN q.profile_city
    ELSE q.sitter_city

\* The response code of discover_available_sessions before the query.
DiscoverDecision(current_user, q) ==
    IF current_user.role # "sitter" THEN "FORBIDDEN"
    ELSE IF Truthy(q.scope) /\ q.scope \notin Scopes THEN "INVALID_SCOPE"
    ELSE "OK"

\* The rows of start_time t..MaxStart that match, by ascending start_time.
RECURSIVE OrderByStartTime(_, _, _)
OrderByStartTime(table, matches, t) ==
    IF t > MaxStart THEN <<>>
    ELSE LET at(i) == i \in matches /\ table[i].start_time = t
         IN  SelectSeq([i \in 1..Len(table) |-> i], at) \o OrderByStartTime(table, matches, t + 1)

\* response.data of lines 806-826, as the ids of its rows: status requested,
\* search_scope = scope when a scope is given, max_distance_km <= max_distance
\* for nearby with a max_distance (a null radius does not compare), ordered
\* by start_time, the first QueryLimit rows.
QueryResponse(table, q) ==
    LET matches ==
            { i \in 1..Len(table) :
                /\ table[i].status = "requested"
                /\ Truthy(q.scope) => table[i].search_scope = q.scope
                /\ (q.scope = "nearby" /\ q.max_distance # 0)
                     => /\ table[i].max_distance_km # 0
                        /\ table[i].max_distance_km <= q.max_distance }
        ordered == OrderByStartTime(table, matches, 0)
    IN  IF Len(ordered) > QueryLimit THEN SubSeq(ordered, 1, QueryLimit) ELSE ordered

\* Mutant of InviteSessions: invitations of every sitter are kept.
InviteSessions_AnySitter(table, response, current_user, t) ==
    LET kept(i) == /\ ~Expired(table[i].expires_at, t)
                   /\ table[i].search_scope = "invite"
    IN  SelectSeq(response, kept)

\* invite_sessions after the loop of lines 836-876.
InviteSessions(table, response, current_user, t) ==
    LET kept(i) == /\ ~Expired(table[i].expires_at, t)
                   /\ table[i].search_scope = "invite"
                   /\ table[i].sitter_id = current_user.id
    IN  SelectSeq(response, kept)

\* other_sessions after the loop: a row of another scope is dropped only when
\* it is a city row, sitter_city is known, the row's city is known and the two
\* differ ignoring case.
OtherSessions(table, response, sitter_city, t) ==
    LET session_city(i) == SessionCity(table[i].location)
        kept(i) ==
            /\ ~Expired(table[i].expires_at, t)
            /\ table[i].search_scope # "invite"
            /\ ~ ( /\ table[i].search_scope = "city"
                   /\ Truthy(sitter_city)
                   /\ Truthy(session_city(i))
                   /\ Lower(session_city(i)) # Lower(sitter_city) )
    IN  SelectSeq(response, kept)

\* Mutant of Combine: the other sessions come first.
Combine_OthersFirst(invite_sessions, other_sessions) ==
    LET all == other_sessions \o invite_sessions
    IN  IF Len(all) > ResultLimit THEN SubSeq(all, 1, ResultLimit) ELSE all

\* (invite_sessions + other_sessions)[:100]
Combine(invite_sessions, other_sessions) ==
    LET all == invite_sessions \o other_sessions
    IN  IF Len(all) > ResultLimit THEN SubSeq(all, 1, ResultLimit) ELSE all

\* The answered call also carries response (the query's rows) and result (the
\* returned list), both as row ids.
DiscoverAvailableSessions(current_user, q) ==
    LET code == DiscoverDecision(current_user, q)
        response == IF code = "OK" THEN QueryResponse(sessions, q) ELSE <<>>
        result ==
            IF code = "OK"
            THEN Combine(InviteSessions(sessions, response, current_user, now),
                         OtherSessions(sessions, response, SitterCity(q), now))
            ELSE <<>>
    IN  /\ Idle
        /\ last' = [ op |-> "discover", user |-> current_user, sid |-> None, req |-> q,
                     code |-> code, before |-> NoRow, patch |-> EmptyPatch, t0 |-> now,
                     response |-> response, result |-> result ]
        /\ UNCHANGED <<sessions, now, pending, users>>

\* The calls of discovery: sitter sa with every request, sitter sb and the
\* callers of another role with the requests that name at most a scope.
DiscoverCalls ==
    ({[id |-> "sa", role |-> "sitter"]} \X DiscoverRequests)
    \cup ({[id |-> "sb", role |-> "sitter"]} \X {q \in PlainRequests : q.scope \in {None, "invite"}})
    \cup ([id : {"pa"}, role : {"parent", "admin"}] \X {q \in PlainRequests : q.scope = None})

InitDiscover ==
    /\ sessions \in Tables
    /\ now \in 0..MaxTime
    /\ last = NoCall
    /\ pending = {}
    /\ users = [i \in {} |-> NoRow]

NextDiscover ==
    \/ \E c \in DiscoverCalls : DiscoverAvailableSessions(c[1], c[2])
    \/ Acknowledge

SpecDiscover == InitDiscover /\ [][NextDiscover]_vars

\* ------------------------------------------------------------ verify_token
\* The bearer token: empty; a text jwt.decode rejects; or a JWT with its
\* claims.  sub None and email "" are absent claims (email defaults to "");
\* exp 0 is an absent exp; role_hint is user_metadata.role or
\* app_metadata.role.
RoleHints == {None, "babysitter", "sitter", "admin"}
NoClaims == [sub |-> None, email |-> "", exp |-> 0, role_hint |-> None]
Tokens ==
    { [kind |-> "empty"] @@ NoClaims, [kind |-> "garbled"] @@ NoClaims }
    \cup [ kind : {"jwt"}, sub : {None, "sa"}, email : {"t@x"}, exp : 0..(MaxTime + 1),
           role_hint : {None} ]
    \cup [ kind : {"jwt"}, sub : {"sa"}, email : {"", "t@x"}, exp : {0},
           role_hint : RoleHints ]

\* What supabase.auth.get_user(token) does: it returns a user, it returns an
\* answer without user, or it raises (verification failed, provider
\* unreachable).
ProviderAnswers ==
    [kind : {"user"}, id : {"sa", "pa"}, email : {"", "p@x"}]
    \cup [kind : {"no_user", "error"}, id : {None}, email : {""}]

\* The outcomes around one call: get_supabase() gives the client or None; the
\* provider's answer; whether the profile lookup, the profile creation and
\* the read after creation go through or raise.
Outcomes ==
    [ supabase : {"client"}, auth : ProviderAnswers, lookup : {"ok", "error"},
      create : {"ok", "error"}, read : {"ok", "error"} ]
    \cup [ supabase : {"none"}, auth : {[kind |-> "error", id |-> None, email |-> ""]},
           lookup : {"ok"}, create : {"ok"}, read : {"ok"} ]

\* The profile tables at the start: none, or the row of sa with a role (None:
\* a null role).
UsersTables ==
    { [i \in {} |-> NoRow] } \cup { [i \in {"sa"} |-> [role |-> r]] : r \in Roles \cup {None} }

\* The error code of lines 43-127, or "OK": the empty token, the store handle,
\* the unverified decode, the subject and the expiry, in this order.
TokenDecision(token, e, t) ==
    IF token.kind = "empty" THEN "UNAUTHORIZED"
    ELSE IF e.supabase = "none" THEN "SERVER_ERROR"
    ELSE IF token.kind = "garbled" THEN "INVALID_TOKEN"
    ELSE IF ~Truthy(token.sub) THEN "INVALID_TOKEN"
    ELSE IF token.exp # 0 /\ token.exp < t THEN "TOKEN_EXPIRED"
    ELSE "OK"

\* status_code of the HTTPException raised with the code.
StatusCode(code) ==
    IF code = "OK" THEN 200 ELSE IF code = "SERVER_ERROR" THEN 500 ELSE 401

\* Lines 129-143: an answer without user ends the call.
ProviderDecision(e) ==
    IF e.auth.kind = "no_user" THEN "UNAUTHORIZED" ELSE "OK"

\* Mutant of VerifiedId: the provider's subject is not taken.
VerifiedId_Unverified(token, e) == token.sub

\* user_id after lines 129-152.
VerifiedId(token, e) ==
    IF e.auth.kind = "user" THEN e.auth.id ELSE token.sub

\* email after lines 129-152: auth_user.user.email or email or "".
VerifiedEmail(token, e) ==
    IF e.auth.kind = "user" /\ Truthy(e.auth.email) THEN e.auth.email ELSE token.email

\* Mutant of RoleHint: babysitter is not normalized.
RoleHint_NoAlias(token) == token.role_hint

\* user_role of lines 196-208.
RoleHint(token) ==
    IF token.role_hint = "babysitter" THEN "sitter" ELSE token.role_hint

\* create_user_profile(p_id, ..., p_role): inserts the profile row, with role
\* parent when no role is passed; id is unique, so the call fails for an id
\* that has a row.
CreateUserProfile(table, user_id, user_role) ==
    table @@ (user_id :> [role |-> IF Truthy(user_role) THEN user_role ELSE "parent"])

\* verify_token.  The answered call carries the outcomes (env), the email of
\* the CurrentUser and the calls made to the row store (store).
VerifyToken(token, e) ==
    LET code0 == TokenDecision(token, e, now)
        code == IF code0 # "OK" THEN code0 ELSE ProviderDecision(e)
        user_id == VerifiedId(token, e)
        email == VerifiedEmail(token, e)
        user_exists == e.lookup = "ok" /\ user_id \in DOMAIN users
        user_role == RoleHint(token)
        created == ~user_exists /\ e.create = "ok" /\ user_id \notin DOMAIN users
        users_after == IF created THEN CreateUserProfile(users, user_id, user_role) ELSE users
        role == IF user_exists THEN users[user_id].role
                ELSE IF ~created THEN "parent"
                ELSE IF e.read = "ok" THEN users_after[user_id].role
                ELSE IF Truthy(user_role) THEN user_role
                ELSE "parent"
        store == <<"select">>
                 \o (IF user_exists THEN <<>> ELSE <<"rpc">>)
                 \o (IF created THEN <<"select">> ELSE <<>>)
    IN  /\ Idle
        /\ IF code # "OK"
           THEN /\ users' = users
                /\ last' = [ op |-> "verify", user |-> [id |-> None, role |-> None],
                             sid |-> None, req |-> token, code |-> code, before |-> NoRow,
                             patch |-> EmptyPatch, t0 |-> now, env |-> e, email |-> None,
                             store |-> <<>> ]
           ELSE /\ users' = users_after
                /\ last' = [ op |-> "verify",
                             user |-> [id |-> user_id,
                                       role |-> IF Truthy(role) THEN role ELSE "parent"],
                             sid |-> None, req |-> token, code |-> "OK", before |-> NoRow,
                             patch |-> EmptyPatch, t0 |-> now, env |-> e, email |-> email,
                             store |-> store ]
        /\ UNCHANGED <<sessions, now, pending>>

InitAuth ==
    /\ sessions = [i \in {} |-> NoRow]
    /\ now \in 1..(MaxTime + 1)
    /\ last = NoCall
    /\ pending = {}
    /\ users \in UsersTables

NextAuth ==
    \/ \E token \in Tokens, e \in Outcomes : VerifyToken(token, e)
    \/ Acknowledge

SpecAuth == InitAuth /\ [][NextAuth]_vars

\* ------------------------------------------------ access checks of records
\* verify_alert_access (alerts.py): the alert record carries the parent_id
\* and sitter_id of its session.
verify_alert_access(alert_data, user) ==
    IF user.role = "admin"
    THEN TRUE
    ELSE \/ alert_data.parent_id = user.id
         \/ alert_data.sitter_id = user.id

\* verify_session_access_for_gps (gps.py): selects the session itself; a
\* session that is not found gives False.
verify_session_access_for_gps(table, session_id, user) ==
    IF session_id \notin DOMAIN table THEN FALSE
    ELSE LET session_data == table[session_id]
         IN  IF user.role = "admin" THEN TRUE
             ELSE IF user.role = "sitter" THEN session_data.sitter_id = user.id
             ELSE IF user.role = "parent" THEN session_data.parent_id = user.id
             ELSE FALSE

\* verify_session_access_for_messages (messages.py).
verify_session_access_for_messages(table, session_id, user) ==
    IF session_id \notin DOMAIN table THEN FALSE
    ELSE LET session_data == table[session_id]
         IN  IF user.role = "admin" THEN TRUE
             ELSE \/ session_data.parent_id = user.id
                  \/ session_data.sitter_id = user.id

\* The session ids a caller names: the row's, and one that no row has.
AccessIds == SessionIds \cup {"s0"}

\* The tables of SpecAccess: none, or one session as create_session inserts
\* it, with no sitter or with one of the sitters.
AccessTables ==
    { [i \in {} |-> NoRow] }
    \cup { [i \in SessionIds |-> [InsertData(q, CreateScope(q)) EXCEPT !.sitter_id = u]] :
             q \in { x \in CreateRequests :
                       CreateDecision(x, [id |-> x.parentId, role |-> "parent"]) = "OK" },
             u \in {None, "sa", "sb"} }

\* The four checks on one user and one session; session and alert are the
\* checks the handlers make on the record they have selected.
CheckAccess(user, session_id) ==
    LET found == session_id \in DOMAIN sessions
        record == IF found THEN sessions[session_id] ELSE NoRow
    IN  /\ Idle
        /\ last' = [ op |-> "access", user |-> user, sid |-> session_id,
                     req |-> EmptyPatch, code |-> IF found THEN "OK" ELSE "SESSION_NOT_FOUND",
                     before |-> record, patch |-> EmptyPatch, t0 |-> now,
                     session |-> found /\ verify_session_access(record, user),
                     alert |-> found /\ verify_alert_access(record, user),
                     gps |-> verify_session_access_for_gps(sessions, session_id, user),
                     messages |-> verify_session_access_for_messages(sessions, session_id, user) ]
        /\ UNCHANGED <<sessions, now, pending, users>>

InitAccess ==
    /\ sessions \in AccessTables
    /\ now = 0
    /\ last = NoCall
    /\ pending = {}
    /\ users = [i \in {} |-> NoRow]

NextAccess ==
    \/ \E u \in CurrentUsers, i \in AccessIds : CheckAccess(u, i)
    \/ Acknowledge

SpecAccess == InitAccess /\ [][NextAccess]_vars

\* ------------------------------------------------- profile updates (users)
\* A field of UpdateProfileRequest that the request does not carry
\* (model_dump(exclude_unset=True) leaves it out).
Unset == "Unset"

\* UpdateProfileRequest: displayName, and city as one of the fields that are
\* written when the request carries them, null included.  The request model
\* has no role field.
ProfileUpdates == [displayName : {None, "n1"}, city : {Unset, None, "c1"}]

\* UpdateUserRequest of the admin route: displayName and role.
AdminUpdates == [displayName : {None, "n1"}, role : {None, "babysitter", "parent", "admin"}]

\* The callers of PUT /me: sa, who has a profile row, and pa, who has none;
\* the role is the one verify_token resolved.
ProfileCallers == [id : {"sa", "pa"}, role : Roles]

\* The profile tables of SpecUsers: none, or the row of sa.
ProfileTables ==
    { [i \in {} |-> NoRow] }
    \cup { [i \in {"sa"} |-> [role |-> r, display_name |-> "n0", city |-> None,
                              updated_at |-> None]] : r \in Roles \cup {None} }

\* What the row store does in PUT /me: get_supabase_with_auth gives the
\* client or None; the update goes through, is refused by a policy, or
\* raises another error; so does the read after it.
ProfileOutcomes ==
    { [supabase |-> "none", update |-> "ok", read |-> "ok"] }
    \cup [supabase : {"client"}, update : {"denied", "error"}, read : {"ok"}]
    \cup [supabase : {"client"}, update : {"ok"}, read : {"ok", "denied", "error"}]

\* What the row store does in the admin route.
AdminOutcomes == [supabase : {"client", "none"}, update : {"ok", "error"}]

\* Mutant of ProfileUpdateData: the role of the CurrentUser is written with
\* the other columns.
ProfileUpdateData_WithRole(current_user, updates, t) ==
    (IF updates.displayName # None
     THEN [display_name |-> updates.displayName] ELSE EmptyPatch)
    @@ (IF updates.city # Unset THEN [city |-> updates.city] ELSE EmptyPatch)
    @@ [role |-> IF Truthy(current_user.role) THEN current_user.role ELSE "parent"]
    @@ [updated_at |-> IsoFormat(t)]

\* update_data of update_current_user_profile.
ProfileUpdateData(current_user, updates, t) ==
    (IF updates.displayName # None
     THEN [display_name |-> updates.displayName] ELSE EmptyPatch)
    @@ (IF updates.city # Unset THEN [city |-> updates.city] ELSE EmptyPatch)
    @@ [updated_at |-> IsoFormat(t)]

\* The error code of update_current_user_profile, or "OK".  single() raises
\* a PGRST error when the read finds no row.
ProfileUpdateDecision(table, current_user, e) ==
    IF e.supabase = "none" THEN "AUTH_ERROR"
    ELSE IF e.update = "denied" THEN "PERMISSION_DENIED"
    ELSE IF e.update = "error" THEN "UPDATE_FAILED"
    ELSE IF current_user.id \notin DOMAIN table THEN "PERMISSION_DENIED"
    ELSE IF e.read = "denied" THEN "PERMISSION_DENIED"
    ELSE IF e.read = "error" THEN "UPDATE_FAILED"
    ELSE "OK"

\* update_current_user_profile (PUT /me): the update is made before the read,
\* so it stays when the read fails.
UpdateCurrentUserProfile(current_user, updates, e) ==
    /\ Idle
    /\ \E t \in ClockReads(now) :
         LET code == ProfileUpdateDecision(users, current_user, e)
             written == /\ e.supabase = "client"
                        /\ e.update = "ok"
                        /\ current_user.id \in DOMAIN users
             update_data == ProfileUpdateData(current_user, updates, t)
         IN  /\ users' = IF written
                         THEN [users EXCEPT ![current_user.id] =
                                  ApplyPatch(users[current_user.id], update_data)]
                         ELSE users
             /\ now' = IF e.supabase = "client" THEN t ELSE now
             /\ last' = [ op |-> "put_me", user |-> current_user, sid |-> None,
                          req |-> updates, code |-> code, before |-> NoRow,
                          patch |-> IF written THEN update_data ELSE EmptyPatch,
                          t0 |-> now, env |-> e ]
    /\ UNCHANGED <<sessions, pending>>

\* update_data of the admin's update_user: babysitter is stored as sitter.
AdminUpdateData(updates, t) ==
    (IF updates.displayName # None
     THEN [display_name |-> updates.displayName] ELSE EmptyPatch)
    @@ (IF updates.role # None
        THEN [role |-> IF updates.role = "babysitter" THEN "sitter" ELSE updates.role]
        ELSE EmptyPatch)
    @@ [updated_at |-> IsoFormat(t)]

\* The error code of update_user behind verify_admin, or "OK".
AdminUpdateDecision(table, admin_user, user_id, e) ==
    IF admin_user.role # "admin" THEN "FORBIDDEN"
    ELSE IF e.supabase = "none" THEN "DB_NOT_AVAILABLE"
    ELSE IF e.update = "error" THEN "INTERNAL_SERVER_ERROR"
    ELSE IF user_id \notin DOMAIN table THEN "UPDATE_FAILED"
    ELSE "OK"

\* update_user (PUT /admin/users/{user_id}).
UpdateUser(admin_user, user_id, updates, e) ==
    /\ Idle
    /\ \E t \in ClockReads(now) :
         LET code == AdminUpdateDecision(users, admin_user, user_id, e)
             update_data == AdminUpdateData(updates, t)
         IN  /\ users' = IF code = "OK"
                         THEN [users EXCEPT ![user_id] = ApplyPatch(users[user_id], update_data)]
                         ELSE users
             /\ now' = IF admin_user.role = "admin" /\ e.supabase = "client" THEN t ELSE now
             /\ last' = [ op |-> "admin_update", user |-> admin_user, sid |-> user_id,
                          req |-> updates, code |-> code, before |-> NoRow,
                          patch |-> IF code = "OK" THEN update_data ELSE EmptyPatch,
                          t0 |-> now, env |-> e ]
    /\ UNCHANGED <<sessions, pending>>

InitUsers ==
    /\ sessions = [i \in {} |-> NoRow]
    /\ now = 0
    /\ last = NoCall
    /\ pending = {}
    /\ users \in ProfileTables

NextUsers ==
    \/ \E u \in ProfileCallers, q \in ProfileUpdates, e \in ProfileOutcomes :
         UpdateCurrentUserProfile(u, q, e)
    \/ \E u \in [id : {"pa"}, role : {"parent", "admin"}], i \in {"sa", "sb"},
          q \in AdminUpdates, e \in AdminOutcomes :
         UpdateUser(u, i, q, e)
    \/ Acknowledge

SpecUsers == InitUsers /\ [][NextUsers]_vars

\* ------------------------------------------- verify_token, calls interleaved
\* Each call of verify_token runs on its own task; its calls to the row store
\* (lookup, creation, read after creation) are separate requests, and the
\* requests of other calls come between them.  pending holds the calls, those
\* that have returned included (pc = "returned").
\*
\* The tokens of the racing calls: well-formed, subject sa, with each hint.
ConcTokens ==
    { t \in Tokens : t.kind = "jwt" /\ t.sub = "sa" /\ t.exp = 0 /\ t.email = "t@x" }

\* The outcomes of the steps before the lookup: the store handle is there and
\* the provider does not answer, so the unverified subject is used.
ConcOutcome ==
    [ supabase |-> "client", auth |-> [kind |-> "error", id |-> None, email |-> ""],
      lookup |-> "ok", create |-> "ok", read |-> "ok" ]

\* Mutant of CreateFailed: the failure of the creation ends the call.
CreateFailed_Raises(role) == [code |-> "AUTH_ERROR", role |-> None]

\* except create_error (lines 259-262): role = role or "parent", and the
\* call goes on to return.
CreateFailed(role) == [code |-> "OK", role |-> IF Truthy(role) THEN role ELSE "parent"]

\* Lines 43-152 and the start of step 3 for call number Cardinality(pending)+1.
BeginVerify(token) ==
    /\ Cardinality(pending) < MaxInFlight
    /\ LET code0 == TokenDecision(token, ConcOutcome, now)
           code == IF code0 # "OK" THEN code0 ELSE ProviderDecision(ConcOutcome)
       IN  pending' = pending \cup
             {[ call |-> Cardinality(pending) + 1,
                pc |-> IF code = "OK" THEN "lookup" ELSE "returned",
                req |-> token, code |-> code,
                user_id |-> VerifiedId(token, ConcOutcome),
                user_role |-> RoleHint(token),
                role |-> None, created |-> FALSE, lost |-> FALSE ]}
    /\ UNCHANGED <<sessions, now, last, users>>

\* Step 3, lines 159-180: select role where id = user_id, single().
LookupProfile(c) ==
    /\ c \in pending
    /\ c.pc = "lookup"
    /\ pending' = (pending \ {c}) \cup
         { IF c.user_id \in DOMAIN users
           THEN [c EXCEPT !.pc = "returned",
                          !.role = IF Truthy(users[c.user_id].role)
                                   THEN users[c.user_id].role ELSE "parent"]
           ELSE [c EXCEPT !.pc = "create"] }
    /\ UNCHANGED <<sessions, now, last, users>>

\* Step 4, lines 196-225 and 259-262: rpc create_user_profile; it fails for
\* an id that has a row by now.
CreateProfile(c) ==
    /\ c \in pending
    /\ c.pc = "create"
    /\ IF c.user_id \notin DOMAIN users
       THEN /\ users' = CreateUserProfile(users, c.user_id, c.user_role)
            /\ pending' = (pending \ {c}) \cup {[c EXCEPT !.pc = "read", !.created = TRUE]}
       ELSE /\ users' = users
            /\ pending' = (pending \ {c}) \cup
                 {[c EXCEPT !.pc = "returned", !.lost = TRUE,
                            !.code = CreateFailed(c.role).code,
                            !.role = CreateFailed(c.role).role]}
    /\ UNCHANGED <<sessions, now, last>>

\* Step 4, lines 227-254: the read after the creation goes through or raises.
ReadProfile(c, answer) ==
    /\ c \in pending
    /\ c.pc = "read"
    /\ LET role == IF answer = "ok" /\ c.user_id \in DOMAIN users
                   THEN users[c.user_id].role
                   ELSE IF Truthy(c.user_role) THEN c.user_role
                   ELSE "parent"
       IN  pending' = (pending \ {c}) \cup
             {[c EXCEPT !.pc = "returned",
                        !.role = IF Truthy(role) THEN role ELSE "parent"]}
    /\ UNCHANGED <<sessions, now, last, users>>

InitAuthConc ==
    /\ sessions = [i \in {} |-> NoRow]
    /\ now = 1
    /\ last = NoCall
    /\ pending = {}
    /\ users = [i \in {} |-> NoRow]

NextAuthConc ==
    \/ \E token \in ConcTokens : BeginVerify(token)
    \/ \E c \in pending : LookupProfile(c)
    \/ \E c \in pending : CreateProfile(c)
    \/ \E c \in pending, answer \in {"ok", "error"} : ReadProfile(c, answer)

SpecAuthConc == InitAuthConc /\ [][NextAuthConc]_vars

\* ================================================================== claims
TransitionTable ==
    { <<"requested", "accepted">>, <<"requested", "cancelled">>,
      <<"accepted", "active">>,    <<"accepted", "cancelled">>,
      <<"active", "completed">>,   <<"active", "cancelled">> }

Terminal == {"completed", "cancelled"}

\* The call just answered found its row.
Answered(op) == last.op = op /\ last.before # NoRow

\* The row of the call just answered, as the store holds it now.
After == sessions[last.sid]

\* The clock readings a call that began at last.t0 can have taken.
CallTimes == { IsoFormat(t) : t \in last.t0..now }

\* C1: with the calls executed one at a time, every change of a session's
\* stored status by update_session or cancel_session is a pair of the
\* transition table; a sitter's PUT of completed on an accepted session is
\* refused (as an invalid transition when the sitter has access to the
\* session) and writes nothing.
C1_StatusFollowsTable ==
    /\ [][ \A i \in DOMAIN sessions :
             sessions'[i].status # sessions[i].status
               => <<sessions[i].status, sessions'[i].status>> \in TransitionTable ]_vars
    /\ [] ( ( /\ Answered("update")
              /\ last.before.status = "accepted"
              /\ last.req.status = "completed"
              /\ last.user.role = "sitter" )
            => /\ last.code = IF verify_session_access(last.before, last.user)
                              THEN "INVALID_STATUS_TRANSITION" ELSE "FORBIDDEN"
               /\ After = last.before )

\* C1 witness: the session's own sitter asked for completed on an accepted
\* session and was refused with INVALID_STATUS_TRANSITION.
C1_Witness ==
    /\ Answered("update")
    /\ last.before.status = "accepted"
    /\ last.req.status = "completed"
    /\ last.user = [id |-> last.before.sitter_id, role |-> "sitter"]
    /\ last.code = "INVALID_STATUS_TRANSITION"
    /\ After.status = "accepted"

\* C2: once the stored status is completed or cancelled, no update_session or
\* cancel_session call, executed one after the other by whatever caller,
\* changes it.
C2_TerminalIsFinal ==
    [][ \A i \in DOMAIN sessions :
          sessions[i].status \in Terminal => sessions'[i].status = sessions[i].status ]_vars

\* C2 witness: a call that asked a terminal session for another status has
\* been answered, and the status is the one it had.
C2_Witness ==
    /\ \/ Answered("update") /\ last.req.status \notin {None, last.before.status}
       \/ Answered("cancel") /\ last.before.status = "completed"
    /\ last.before.status \in Terminal
    /\ last.code # "OK"
    /\ After.status = last.before.status

\* C3: when transition requests for one session interleave (each selects the
\* row, checks against the status it read, then writes), a write takes effect
\* only if the stored status is still the status its request read; hence
\* under every interleaving the stored status changes along the transition
\* table only, and never leaves completed or cancelled.
C3_InterleavedStatusFollowsTable ==
    [][ \A i \in DOMAIN sessions :
          sessions'[i].status # sessions[i].status
            => <<sessions[i].status, sessions'[i].status>> \in TransitionTable ]_vars

\* C4: a PUT asking for accepted, active or completed by a caller whose role
\* is not sitter is refused whatever the current status, and the row stays as
\* it was.
C4_NonSitterRefused ==
    ( /\ Answered("update")
      /\ last.req.status \in {"accepted", "active", "completed"}
      /\ last.user.role # "sitter" )
    => /\ last.code # "OK"
       /\ After = last.before

\* A cancellation call: PUT with status cancelled, or DELETE.
Cancelling ==
    \/ Answered("update") /\ last.req.status = "cancelled"
    \/ Answered("cancel")

\* C5: a cancellation (PUT status=cancelled or DELETE) of a requested,
\* accepted or active session by its parent_id, by its sitter_id or by an
\* admin succeeds and stores status cancelled.
C5_PartiesCanCancel ==
    ( /\ Cancelling
      /\ last.before.status \in {"requested", "accepted", "active"}
      /\ \/ last.user.id = last.before.parent_id
         \/ last.user.id = last.before.sitter_id
         \/ last.user.role = "admin" )
    => /\ last.code = "OK"
       /\ After.status = "cancelled"

\* C5 witness: the session's sitter cancelled an active session with DELETE.
C5_Witness ==
    /\ Answered("cancel")
    /\ last.before.status = "active"
    /\ last.user.id = last.before.sitter_id
    /\ last.user.id # last.before.parent_id
    /\ last.user.role # "admin"
    /\ last.code = "OK"
    /\ After.status = "cancelled"

\* An accept by a caller of role sitter of a requested invite session that has
\* its sitter assigned.
InviteAccept ==
    /\ Answered("update")
    /\ last.before.status = "requested"
    /\ last.before.search_scope = "invite"
    /\ last.before.sitter_id # None
    /\ last.req.status = "accepted"
    /\ last.user.role = "sitter"

\* C6 as stated: an accept of a requested invite session by a sitter other
\* than the invited one fails with Forbidden and changes nothing; the invited
\* sitter's accept succeeds, keeps sitter_id and stores status accepted.
C6_UninvitedForbidden ==
    InviteAccept
    => IF last.user.id = last.before.sitter_id
       THEN /\ last.code = "OK"
            /\ After.sitter_id = last.before.sitter_id
            /\ After.status = "accepted"
       ELSE /\ last.code = "FORBIDDEN"
            /\ After = last.before

\* C6 amended: the accept of a sitter other than the invited one fails and
\* changes nothing; it fails with Forbidden unless that sitter is the session's
\* parent_id, who passes the access check and is refused by the state machine
\* as an invalid transition.  The invited sitter's accept succeeds, keeps
\* sitter_id and stores status accepted.
C6_UninvitedRefused ==
    InviteAccept
    => IF last.user.id = last.before.sitter_id
       THEN /\ last.code = "OK"
            /\ After.sitter_id = last.before.sitter_id
            /\ After.status = "accepted"
       ELSE /\ last.code = IF last.user.id = last.before.parent_id
                           THEN "INVALID_STATUS_TRANSITION" ELSE "FORBIDDEN"
            /\ After = last.before

\* C6 witness: a sitter who was not invited got Forbidden.
C6_Witness ==
    /\ InviteAccept
    /\ last.user.id \notin {last.before.sitter_id, last.before.parent_id}
    /\ last.code = "FORBIDDEN"
    /\ After = last.before

\* C7: an accept of a requested nearby, city or nationwide session without
\* sitter_id by any caller of role sitter succeeds, stores status accepted and
\* stores the caller's id as sitter_id.
C7_OpenRequestAccepted ==
    ( /\ Answered("update")
      /\ last.before.status = "requested"
      /\ last.before.search_scope \in {"nearby", "city", "nationwide"}
      /\ last.before.sitter_id = None
      /\ last.req.status = "accepted"
      /\ last.user.role = "sitter" )
    => /\ last.code = "OK"
       /\ After.status = "accepted"
       /\ After.sitter_id = last.user.id

\* C8: a requested session of scope nearby, city or nationwide has no
\* sitter_id (creation drops a sitterId given with such a scope), and a
\* sitter_id appears on a row only in a write that stores status accepted or
\* active.
C8_SitterOnlyInvitedOrAccepted ==
    /\ [] ( \A i \in DOMAIN sessions :
              (sessions[i].status = "requested" /\ sessions[i].search_scope # "invite")
                => sessions[i].sitter_id = None )
    /\ [][ \A i \in DOMAIN sessions :
             (sessions[i].sitter_id = None /\ sessions'[i].sitter_id # None)
               => sessions'[i].status \in {"accepted", "active"} ]_vars

\* C8 witness: a session was created with scope nearby, city or nationwide
\* from a request that named a sitterId, and its row has none.
C8_Witness ==
    /\ last.op = "create"
    /\ last.code = "OK"
    /\ last.req.sitterId # None
    /\ sessions[last.sid].search_scope # "invite"
    /\ sessions[last.sid].sitter_id = None

\* C9: a successful cancellation, by PUT or by DELETE, writes in the one
\* update that stores status cancelled: cancelled_at, a reading of the clock
\* taken during the call; cancelled_by, the caller's role; and
\* cancellation_reason exactly when the caller gave a (non-empty) reason.
C9_CancellationStamps ==
    (Cancelling /\ last.code = "OK")
    => LET reason == IF last.op = "cancel" THEN last.req.reason
                     ELSE last.req.cancellationReason
       IN  /\ {"status", "cancelled_at", "cancelled_by"} \subseteq DOMAIN last.patch
           /\ last.patch.status = "cancelled"
           /\ last.patch.cancelled_at \in CallTimes
           /\ last.patch.cancelled_by = last.user.role
           /\ "cancellation_reason" \in DOMAIN last.patch <=> Truthy(reason)
           /\ Truthy(reason) => last.patch.cancellation_reason = reason
           /\ After = ApplyPatch(last.before, last.patch)

\* C9 witness: a sitter cancelled by PUT with a reason, after the clock had
\* moved on.
C9_Witness ==
    /\ Answered("update")
    /\ last.req.status = "cancelled"
    /\ last.req.cancellationReason = "r1"
    /\ last.user.role = "sitter"
    /\ last.code = "OK"
    /\ last.t0 > 0
    /\ After.cancelled_by = "sitter"
    /\ After.cancellation_reason = "r1"
    /\ After.cancelled_at \in CallTimes

\* C10: a successful active -> completed transition stores completed_at, the
\* transition time; without endTime in the request it stores that same time
\* as end_time (end_time = completed_at); with endTime in the request it
\* stores the given value as end_time.
C10_CompletionStamps ==
    ( /\ Answered("update")
      /\ last.before.status = "active"
      /\ last.req.status = "completed"
      /\ last.code = "OK" )
    => /\ After.completed_at \in CallTimes
       /\ last.req.endTime = None => After.end_time = After.completed_at
       /\ last.req.endTime # None => After.end_time = last.req.endTime

\* C11: create_session inserts a row only for a caller whose role is parent
\* and whose id is the request's parentId, and the inserted row has status
\* requested; a caller of role sitter or admin, and a parent naming another
\* parent, is answered Forbidden and no row is inserted.
C11_OnlyOwnParentCreates ==
    /\ [] ( last.op = "create"
             => /\ last.code = "OK"
                     => /\ last.user.role = "parent"
                        /\ last.req.parentId = last.user.id
                        /\ last.sid \in DOMAIN sessions
                        /\ sessions[last.sid].status = "requested"
                /\ (last.user.role # "parent" \/ last.req.parentId # last.user.id)
                     => last.code = "FORBIDDEN" /\ last.sid = None )
    /\ [][ /\ DOMAIN sessions' # DOMAIN sessions
               => last'.op = "create" /\ last'.code = "OK"
           /\ (last'.op = "create" /\ last.op = "none" /\ last'.code # "OK")
               => sessions' = sessions ]_vars

\* C11 witness: a caller of role parent named another parent and was
\* answered Forbidden; the table has no row.
C11_Witness ==
    /\ last.op = "create"
    /\ last.user.role = "parent"
    /\ last.req.parentId # last.user.id
    /\ last.code = "FORBIDDEN"
    /\ DOMAIN sessions = {}

\* ------------------------------------------------------- discovery claims
\* A discovery call has been answered with a list.
Discovered == last.op = "discover" /\ last.code = "OK"

\* The row at place k of the returned list.
Returned(k) == sessions[last.result[k]]

\* Row id i is in the sequence of ids.
InSeq(seq, i) == \E k \in 1..Len(seq) : seq[k] = i

\* The place of row id i in the sequence of ids.
Place(seq, i) == CHOOSE k \in 1..Len(seq) : seq[k] = i

\* The row has no expiry, or one that is not before the clock of the call.
NotPast(row) == row.expires_at.kind = "none" \/ row.expires_at.t >= last.t0

\* C12: in the returned list no session of another scope precedes an invite
\* session, whatever the start times; the invite sessions keep the order of
\* the query and the others are in ascending start_time; and a list below the
\* size cap holds every unexpired invitation of the caller that the query
\* delivered.
C12_InvitesPinnedFirst ==
    Discovered
    => /\ \A j, k \in 1..Len(last.result) :
            j < k
            => /\ Returned(k).search_scope = "invite" => Returned(j).search_scope = "invite"
               /\ (Returned(j).search_scope # "invite" /\ Returned(k).search_scope # "invite")
                    => Returned(j).start_time <= Returned(k).start_time
               /\ (Returned(j).search_scope = "invite" /\ Returned(k).search_scope = "invite")
                    => Place(last.response, last.result[j]) < Place(last.response, last.result[k])
       /\ Len(last.result) < ResultLimit
            => \A k \in 1..Len(last.response) :
                 LET row == sessions[last.response[k]]
                 IN  (row.search_scope = "invite" /\ row.sitter_id = last.user.id /\ NotPast(row))
                       => InSeq(last.result, last.response[k])

\* C12 witness: the list begins with an invitation of start_time 1, followed
\* by an open request of start_time 0.
C12_Witness ==
    /\ Discovered
    /\ Len(last.result) >= 2
    /\ Returned(1).search_scope = "invite"
    /\ Returned(1).start_time = 1
    /\ Returned(2).search_scope # "invite"
    /\ Returned(2).start_time = 0

\* C13: the list never holds more than 100 sessions, and a call without scope
\* filter, or with the filter invite, returns every requested, unexpired
\* invite session addressed to the caller when there are at most 100 of them,
\* however many other requested sessions start earlier.
C13_InviteNeverCrowdedOut ==
    (Discovered /\ last.req.scope \in {None, "invite"})
    => /\ Len(last.result) <= ResultLimit
       /\ LET mine == { i \in DOMAIN sessions :
                          /\ sessions[i].status = "requested"
                          /\ sessions[i].search_scope = "invite"
                          /\ sessions[i].sitter_id = last.user.id
                          /\ NotPast(sessions[i]) }
          IN  Cardinality(mine) <= ResultLimit => \A i \in mine : InSeq(last.result, i)

\* C14: whoever the calling sitter and whatever the scope filter, an invite
\* session in the returned list has the caller's id as sitter_id.
C14_OnlyOwnInvites ==
    Discovered
    => \A k \in 1..Len(last.result) :
         Returned(k).search_scope = "invite" => Returned(k).sitter_id = last.user.id

\* C14 witness: the table holds a requested invitation of another sitter and
\* one of the caller; the list holds the caller's and not the other's.
C14_Witness ==
    /\ Discovered
    /\ \E i, j \in DOMAIN sessions :
         /\ sessions[i].status = "requested"
         /\ sessions[i].search_scope = "invite"
         /\ sessions[i].sitter_id \notin {None, last.user.id}
         /\ ~InSeq(last.result, i)
         /\ sessions[j].search_scope = "invite"
         /\ sessions[j].sitter_id = last.user.id
         /\ InSeq(last.result, j)

\* C15: a caller whose role is not sitter is answered Forbidden and gets no
\* list; every session of a returned list has status requested and, if it has
\* an expires_at, one that is not in the past, whatever its scope.
C15_RequestedUnexpiredForSitters ==
    last.op = "discover"
    => /\ last.user.role # "sitter" => (last.code = "FORBIDDEN" /\ last.result = <<>>)
       /\ \A k \in 1..Len(last.result) :
            Returned(k).status = "requested" /\ NotPast(Returned(k))

\* C16: a call with scope nearby (the endpoint takes no coordinates, so none
\* are supplied) returns the empty list.
C16_NearbyWithoutCoordinatesEmpty ==
    (Discovered /\ last.req.scope = "nearby") => last.result = <<>>

\* C17: with scope nearby and a max_distance filter f, every returned session
\* has max_distance_km >= f; without a filter every requested, unexpired
\* nearby session is returned (the list being below the size cap).
C17_RadiusAtLeastFilter ==
    (Discovered /\ last.req.scope = "nearby")
    => IF last.req.max_distance # 0
       THEN \A k \in 1..Len(last.result) :
              Returned(k).max_distance_km >= last.req.max_distance
       ELSE Len(last.result) < ResultLimit
              => \A i \in DOMAIN sessions :
                   ( /\ sessions[i].status = "requested"
                     /\ sessions[i].search_scope = "nearby"
                     /\ NotPast(sessions[i]) )
                   => InSeq(last.result, i)

\* C18: a city session in the returned list has a city in its location, the
\* sitter's city (query parameter, else profile city) is known, and the two
\* are equal ignoring case.
C18_CityOnlyOnMatch ==
    Discovered
    => \A k \in 1..Len(last.result) :
         Returned(k).search_scope = "city"
         => LET session_city == SessionCity(Returned(k).location)
                sitter_city == IF Truthy(last.req.sitter_city) THEN last.req.sitter_city
                               ELSE last.req.profile_city
            IN  /\ Truthy(session_city)
                /\ Truthy(sitter_city)
                /\ Lower(session_city) = Lower(sitter_city)

\* ---------------------------------------------------------- identity claims
\* The token of the answered verify_token call is empty, undecodable, without
\* subject, or expired at the time of the call.
BadToken ==
    \/ last.req.kind \in {"empty", "garbled"}
    \/ ~Truthy(last.req.sub)
    \/ last.req.exp # 0 /\ last.req.exp < last.t0

\* C19: verify_token answers a token that is empty, undecodable, without
\* subject (INVALID_TOKEN) or expired (TOKEN_EXPIRED) with a 401 error and no
\* identity, and makes no call to the row store for it.
C19_BadTokenUnauthorized ==
    (last.op = "verify" /\ BadToken)
    => /\ StatusCode(last.code) = 401
       /\ (last.req.kind = "jwt" /\ ~Truthy(last.req.sub)) => last.code = "INVALID_TOKEN"
       /\ (last.req.kind = "jwt" /\ Truthy(last.req.sub)) => last.code = "TOKEN_EXPIRED"
       /\ last.user.id = None
       /\ last.store = <<>>

\* A verify_token call whose token passed the checks before the provider is
\* asked.
PassedToProvider ==
    /\ last.op = "verify"
    /\ ~BadToken
    /\ last.env.supabase = "client"

C26_TerminalPutRefused ==
    ( /\ Answered("update")
      /\ last.before.status \in Terminal
      /\ last.req.status # None
      /\ verify_session_access(last.before, last.user) )
    => /\ last.code = "INVALID_STATUS_TRANSITION"
       /\ After = last.before

\* C28: in every reachable state a session whose status is accepted, active
\* or completed has a sitter_id.
C28_AcceptedHasSitter ==
    \A i \in DOMAIN sessions :
      sessions[i].status \in {"accepted", "active", "completed"}
        => sessions[i].sitter_id # None

\* C28 witness: a request without sitter_id was accepted and the row has the
\* accepting caller as sitter_id.
C28_Witness ==
    /\ Answered("update")
    /\ last.before.status = "requested"
    /\ last.before.sitter_id = None
    /\ last.req.status = "accepted"
    /\ last.code = "OK"
    /\ After.status = "accepted"
    /\ After.sitter_id = last.user.id

\* C29: update_session and cancel_session never change or clear a sitter_id
\* that is set, and never change parent_id or search_scope.
C29_PartiesAndScopeKept ==
    [][ \A i \in DOMAIN sessions :
          /\ sessions[i].sitter_id # None => sessions'[i].sitter_id = sessions[i].sitter_id
          /\ sessions'[i].parent_id = sessions[i].parent_id
          /\ sessions'[i].search_scope = sessions[i].search_scope ]_vars

\* C29 witness: a caller of role sitter who is not the session's sitter_id
\* moved the session to active, and sitter_id, parent_id and search_scope are
\* as before.
C29_Witness ==
    /\ Answered("update")
    /\ last.req.status = "active"
    /\ last.user.role = "sitter"
    /\ last.before.sitter_id \notin {None, last.user.id}
    /\ last.code = "OK"
    /\ After.status = "active"
    /\ After.sitter_id = last.before.sitter_id
    /\ After.parent_id = last.before.parent_id
    /\ After.search_scope = last.before.search_scope

\* C25: for every user and every session, the session check, the alert check,
\* the GPS check and the message check each give true exactly when the role
\* is admin or the user's id is the session's parent_id or sitter_id.
C25_AccessChecksAgree ==
    (last.op = "access" /\ last.before # NoRow)
    => LET allowed == \/ last.user.role = "admin"
                      \/ last.user.id = last.before.parent_id
                      \/ last.user.id = last.before.sitter_id
       IN  /\ last.session = allowed
           /\ last.alert = allowed
           /\ last.gps = allowed
           /\ last.messages = allowed

\* C24: no PUT /me call changes a stored role or the set of profile rows; a
\* step that changes the role column is an update_user call of an admin (the
\* creation procedure writes the role of a row that did not exist).
C24_PutMeKeepsRole ==
    [][ /\ (last'.op = "put_me"
            => /\ DOMAIN users' = DOMAIN users
               /\ \A i \in DOMAIN users : users'[i].role = users[i].role)
        /\ ((\E i \in DOMAIN users : i \in DOMAIN users' /\ users'[i].role # users[i].role)
            => /\ last'.op = "admin_update"
               /\ last'.user.role = "admin") ]_vars

\* A PUT /me of sa, resolved as parent, has written the name of a row whose
\* stored role is admin.
C24_Witness ==
    /\ last.op = "put_me"
    /\ last.code = "OK"
    /\ last.user = [id |-> "sa", role |-> "parent"]
    /\ last.req.displayName = "n1"
    /\ users["sa"].display_name = "n1"
    /\ users["sa"].role = "admin"

\* C21: once the token decodes with a subject and an expiry that has not
\* passed, verify_token returns a CurrentUser whatever the store handle, the
\* lookup, the creation and the read after it do; no error is surfaced.  (An
\* answer of the provider without user is left aside.)
C21_DecodedTokenAlwaysResolves ==
    (last.op = "verify" /\ ~BadToken /\ last.env.auth.kind # "no_user")
    => /\ last.code = "OK"
       /\ last.user.id # None
       /\ last.user.role \in Roles

\* The profile was created in this call: lookup, creation, read after it.
Provisioned ==
    /\ last.op = "verify"
    /\ last.code = "OK"
    /\ last.store = <<"select", "rpc", "select">>

\* C27: after a creation, a blocked read gives the role hint of the token,
\* with babysitter as sitter, and parent without hint; a read that succeeds
\* gives the stored role.
C27_HintOnlyWhenReadBlocked ==
    Provisioned
    => LET hint == last.req.role_hint
       IN  IF last.env.read = "error"
           THEN last.user.role = IF hint = "babysitter" THEN "sitter"
                                 ELSE IF Truthy(hint) THEN hint
                                 ELSE "parent"
           ELSE /\ last.user.id \in DOMAIN users
                /\ last.user.role = users[last.user.id].role

\* A token with the hint babysitter, profile created, read blocked: the call
\* returned sitter.
C27_Witness ==
    /\ Provisioned
    /\ last.req.role_hint = "babysitter"
    /\ last.env.read = "error"
    /\ last.user.role = "sitter"

\* C30: verify_token returns admin only for a subject whose profile row had
\* the role admin when the call was made; the role of the token's metadata
\* does not make the resolved role admin.
C30_AdminOnlyFromStoredRow ==
    [][ (last'.op = "verify" /\ last'.code = "OK" /\ last'.user.role = "admin")
        => /\ last'.user.id \in DOMAIN users
           /\ users[last'.user.id].role = "admin" ]_vars

\* Two or more calls of verify_token were made and all have returned.
AllReturned ==
    /\ Cardinality(pending) >= 2
    /\ \A c \in pending : c.pc = "returned"

\* C22: for a subject without profile row, when the concurrent calls of
\* verify_token have all returned, exactly one of them created the row, the
\* row is there, and every call returned a CurrentUser of that subject.
C22_OneRowBothReturn ==
    AllReturned
    => /\ "sa" \in DOMAIN users
       /\ Cardinality({c \in pending : c.created}) = 1
       /\ \A c \in pending : /\ c.code = "OK"
                             /\ c.user_id = "sa"
                             /\ c.role \in Roles

\* Two calls raced: one created the row, the other's creation failed.
C22_Witness ==
    /\ AllReturned
    /\ \E c, d \in pending : c.created /\ d.lost /\ c.call # d.call

\* C23: a call whose creation failed because another call had created the row
\* returns the role stored in the row.
C23_LoserReturnsStoredRole ==
    \A c \in pending :
      (c.pc = "returned" /\ c.lost)
      => /\ c.user_id \in DOMAIN users
         /\ c.role = users[c.user_id].role

====
